---- MODULE Spec2Model ----
(***************************************************************************)
(* The in-circuit FRI verifier of plonky2, fri/recursive_verifier.rs.       *)
(*                                                                         *)
(* The verifier never sees field values: its arguments are targets (wire   *)
(* handles) and its output is the sequence of transcript operations it     *)
(* performs on the challenger and the sequence of gates and constraints it *)
(* appends to the circuit builder.  The main specification, Spec, models   *)
(* verify_fri_proof as a step machine over the SHAPE of its arguments and  *)
(* records both sequences symbolically.  Index bits are named by their     *)
(* position 0 .. n_log-1 in the decomposition of the query index, lowest   *)
(* bit first.  Rounds, queries, caps and oracles are numbered from 1.      *)
(***************************************************************************)
EXTENDS Integers, Sequences, FiniteSets, TLC

VARIABLES
    build,                \* the build and the generic parameters F, D, CircuitConfig
    params,               \* FriParams (with its FriConfig)
    proof,                \* the shape of the FriProofTarget
    initial_merkle_caps,  \* the number of initial Merkle caps passed in
    pc,                   \* position in verify_fri_proof
    abort,                \* "none", or why construction panicked
    challenger,           \* the transcript operations performed so far
    ctx,                  \* the gates and constraints appended to the builder
    q,                    \* the query round being verified
    round,                \* the reduction round within the query round
    x_index_bits,         \* the working index bits (positions)
    cap_index,            \* the bits whose le_sum is cap_index
    subgroup_x,           \* the domain point, symbolically
    old_eval,             \* the last derived evaluation, symbolically
    pow,                  \* a run of fri_verify_proof_of_work over field values
    pt,                   \* a query round's domain point over field values
    comb                  \* a run of fri_combine_initial over field values

vars == <<build, params, proof, initial_merkle_caps, pc, abort, challenger, ctx,
          q, round, x_index_bits, cap_index, subgroup_x, old_eval, pow, pt, comb>>

mainVars == <<build, params, proof, initial_merkle_caps, pc, abort, challenger, ctx,
              q, round, x_index_bits, cap_index, subgroup_x, old_eval>>

\* What no step of verify_fri_proof changes: its arguments, and the variables of
\* the specifications over field values.
inputs == <<build, params, proof, initial_merkle_caps, pow, pt, comb>>

(***************************************************************************)
(* Bounds of the model.                                                    *)
(***************************************************************************)
MaxDegreeBits == 2
MaxCapHeight == 1
MaxRounds == 2
MaxArityBits == 2
MaxQueries == 2

(***************************************************************************)
(* Helpers.                                                                *)
(***************************************************************************)
RECURSIVE SumSeq(_)
SumSeq(s) == IF s = <<>> THEN 0 ELSE Head(s) + SumSeq(Tail(s))

Prefix(s, n) == SubSeq(s, 1, n)

Reverse(s) == [k \in 1..Len(s) |-> s[Len(s) + 1 - k]]

Min(a, b) == IF a < b THEN a ELSE b

IsPrefixOf(s, t) == Len(s) <= Len(t) /\ s = SubSeq(t, 1, Len(s))

\* The positions lo, lo+1, .., hi-1 as a sequence (empty when hi <= lo).
Positions(lo, hi) == [k \in 1..(hi - lo) |-> lo + k - 1]

Unused == [pc |-> "unused"]

(***************************************************************************)
(* FriParams.                                                              *)
(***************************************************************************)
\* params.lde_size() is 2^(degree_bits + rate_bits); log2_strict of it.
NLog(p) == p.degree_bits + p.rate_bits

ArityLists == UNION {[1..n -> 1..MaxArityBits] : n \in 0..MaxRounds}

ParamsSet ==
    [degree_bits : 1..MaxDegreeBits,
     rate_bits : {0, 1},
     cap_height : 0..MaxCapHeight,
     reduction_arity_bits : ArityLists,
     num_query_rounds : 1..MaxQueries,
     final_poly_len : {1, 2}]

(***************************************************************************)
(* The arguments of verify_fri_proof.  A proof is described by its shape:  *)
(* the lengths of its vectors.  Every query round proof has the same       *)
(* shape; every step carries 2^arity_bits coset evaluations.  The shapes   *)
(* drawn are the one add_virtual_fri_proof would build for the parameters  *)
(* and the single-field departures from it; the build has at most one      *)
(* defect too.                                                             *)
(***************************************************************************)
HonestProof(p, oracles) ==
    [commit_phase_merkle_caps |-> Len(p.reduction_arity_bits),
     final_poly |-> p.final_poly_len,
     query_round_proofs |-> p.num_query_rounds,
     steps |-> Len(p.reduction_arity_bits),
     evals_proofs |-> oracles,
     siblings |-> IF NLog(p) >= p.cap_height THEN NLog(p) - p.cap_height ELSE 0]

Faults == {"none", "capacity", "noncanonical", "D1", "final_poly", "more_queries",
           "fewer_queries", "fewer_caps", "fewer_steps", "siblings",
           "fewer_initial_caps"}

Dec(n) == IF n > 0 THEN n - 1 ELSE 0

FaultyProof(h, f) ==
    CASE f = "final_poly" -> [h EXCEPT !.final_poly = @ + 1]
      [] f = "more_queries" -> [h EXCEPT !.query_round_proofs = @ + 1]
      [] f = "fewer_queries" -> [h EXCEPT !.query_round_proofs = Dec(@)]
      [] f = "fewer_caps" -> [h EXCEPT !.commit_phase_merkle_caps = Dec(@)]
      [] f = "fewer_steps" -> [h EXCEPT !.steps = Dec(@)]
      [] f = "siblings" -> [h EXCEPT !.siblings = @ + 1]
      [] OTHER -> h

FaultyBuild(debug, f) ==
    [debug_assertions |-> debug,
     D |-> IF f = "D1" THEN 1 ELSE 2,
     capacity_ok |-> f # "capacity",
     noncanonical_ok |-> f # "noncanonical"]

Init ==
    /\ \E p \in ParamsSet, oracles \in {2}, f \in Faults, debug \in BOOLEAN :
          /\ params = p
          /\ build = FaultyBuild(debug, f)
          /\ proof = FaultyProof(HonestProof(p, oracles), f)
          /\ initial_merkle_caps = IF f = "fewer_initial_caps" THEN oracles - 1 ELSE oracles
    /\ pc = "check_config"
    /\ abort = "none"
    /\ challenger = <<>>
    /\ ctx = <<>>
    /\ q = 0
    /\ round = 0
    /\ x_index_bits = <<>>
    /\ cap_index = <<>>
    /\ subgroup_x = [exp_bits |-> <<>>, squarings |-> 0]
    /\ old_eval = [term |-> "none", q |-> 0, round |-> 0]
    /\ pow = Unused
    /\ pt = Unused
    /\ comb = Unused

(***************************************************************************)
(* Transcript operations and builder operations, as recorded.              *)
(***************************************************************************)
TOp(op, what, i) == [op |-> op, what |-> what, i |-> i]

\* verify_merkle_proof_with_cap_index(leaf, bits, cap_index, cap, path)
MerkleOp(qq, leaf, bits, capidx, cap, path) ==
    [kind |-> "merkle", q |-> qq, leaf |-> leaf, bits |-> bits,
     cap_index |-> capidx, cap |-> cap, path |-> path]

RandomAccessOpStale(qq, r, index, claimed) ==
    [kind |-> "random_access", q |-> qq, round |-> r, index |-> index,
     claimed |-> [term |-> "combine_initial", q |-> qq, round |-> 0],
     evals |-> <<"evals", r>>]

\* random_access_extension(le_sum(index), claimed, evals of round r)
RandomAccessOp(qq, r, index, claimed) ==
    [kind |-> "random_access", q |-> qq, round |-> r, index |-> index,
     claimed |-> claimed, evals |-> <<"evals", r>>]

\* connect_extension(final_poly.eval_scalar(x), claimed)
FinalOp(qq, x, claimed) ==
    [kind |-> "connect_final", q |-> qq, x |-> x, claimed |-> claimed,
     coeffs |-> proof.final_poly]

\* compute_evaluation(x, within-coset bits, arity_bits, evals of round r, betas[r])
InterpolateOp(qq, r, x, within) ==
    [kind |-> "interpolate", q |-> qq, round |-> r, x |-> x,
     start_bits |-> Reverse(within), evals |-> <<"evals", r>>, beta |-> r]

GateOp(kind, qq, r) == [kind |-> kind, q |-> qq, round |-> r]

\* fri_combine_initial: the instance opens polynomials of every oracle of the
\* initial tree proof, whose leaves unsalted_eval reads.
CombineInitialOp(qq) ==
    [kind |-> "combine_initial", q |-> qq, round |-> 0,
     leaves |-> {<<"initial_leaf", o>> : o \in 1..proof.evals_proofs}]

\* The value fri_combine_initial returns for query qq.
InitialCombination(qq) == [term |-> "combine_initial", q |-> qq, round |-> 0]

\* The value compute_evaluation returns in round r: the interpolant of
\* round r's coset evaluations at betas[r].
Interpolated(qq, r) == [term |-> "interpolate", q |-> qq, round |-> r]

Halt(reason) == abort' = reason /\ pc' = "done"

queryVars == <<q, round, x_index_bits, cap_index, subgroup_x, old_eval>>

(***************************************************************************)
(* verify_fri_proof, lines 134-183.                                        *)
(***************************************************************************)
\* check_recursion_config; the final polynomial's length; lde_size.
CheckConfig ==
    /\ pc = "check_config"
    /\ IF Len(params.reduction_arity_bits) > 0 /\ ~build.capacity_ok
         THEN Halt("capacity")
         ELSE IF build.debug_assertions /\ params.final_poly_len # proof.final_poly
                THEN Halt("final_poly_len")
                ELSE abort' = abort /\ pc' = "observe_openings"
    /\ UNCHANGED <<inputs, challenger, ctx, queryVars>>

ObserveOpenings ==
    /\ pc = "observe_openings"
    /\ challenger' = Append(challenger, TOp("observe", "openings", 0))
    /\ pc' = "alpha"
    /\ UNCHANGED <<inputs, abort, ctx, queryVars>>

DrawAlpha ==
    /\ pc = "alpha"
    /\ challenger' = Append(challenger, TOp("challenge", "alpha", 0))
    /\ round' = 1
    /\ pc' = "caps"
    /\ UNCHANGED <<inputs, abort, ctx, q, x_index_bits, cap_index, subgroup_x, old_eval>>

ObserveCapDrawBetaSwapped ==
    /\ pc = "caps"
    /\ round <= proof.commit_phase_merkle_caps
    /\ challenger' = challenger \o <<TOp("challenge", "beta", round),
                                     TOp("observe", "cap", round)>>
    /\ round' = round + 1
    /\ UNCHANGED <<inputs, pc, abort, ctx, q, x_index_bits, cap_index, subgroup_x, old_eval>>

\* One iteration of the map over commit_phase_merkle_caps.
ObserveCapDrawBeta ==
    /\ pc = "caps"
    /\ round <= proof.commit_phase_merkle_caps
    /\ challenger' = challenger \o <<TOp("observe", "cap", round),
                                     TOp("challenge", "beta", round)>>
    /\ round' = round + 1
    /\ UNCHANGED <<inputs, pc, abort, ctx, q, x_index_bits, cap_index, subgroup_x, old_eval>>

ObserveFinalPoly ==
    /\ pc = "caps"
    /\ round > proof.commit_phase_merkle_caps
    /\ challenger' = Append(challenger, TOp("observe", "final_poly", proof.final_poly))
    /\ round' = 0
    /\ pc' = "pow"
    /\ UNCHANGED <<inputs, abort, ctx, q, x_index_bits, cap_index, subgroup_x, old_eval>>

VerifyProofOfWorkChecked ==
    /\ pc = "pow"
    /\ challenger' = Append(challenger, TOp("get_hash", "pow", 0))
    /\ ctx' = Append(ctx, GateOp("assert_leading_zeros", 0, 0))
    /\ \E enough_zeros \in BOOLEAN :
          IF enough_zeros THEN abort' = abort /\ pc' = "check_queries"
                          ELSE Halt("proof_of_work")
    /\ UNCHANGED <<inputs, queryVars>>

\* fri_verify_proof_of_work, lines 106-120.
VerifyProofOfWork ==
    /\ pc = "pow"
    /\ challenger' = Append(challenger, TOp("get_hash", "pow", 0))
    /\ ctx' = Append(ctx, GateOp("assert_leading_zeros", 0, 0))
    /\ pc' = "check_queries"
    /\ UNCHANGED <<inputs, abort, queryVars>>

CheckQueryRoundsUnchecked ==
    /\ pc = "check_queries"
    /\ abort' = abort
    /\ pc' = "precompute"
    /\ UNCHANGED <<inputs, challenger, ctx, queryVars>>

\* The number of query round proofs, lines 172-177.
CheckQueryRounds ==
    /\ pc = "check_queries"
    /\ IF build.debug_assertions /\ params.num_query_rounds # proof.query_round_proofs
         THEN Halt("num_query_rounds")
         ELSE abort' = abort /\ pc' = "precompute"
    /\ UNCHANGED <<inputs, challenger, ctx, queryVars>>

\* PrecomputedReducedOpeningsTarget::from_os_and_alpha, once.
PrecomputeReducedOpenings ==
    /\ pc = "precompute"
    /\ ctx' = Append(ctx, GateOp("reduce_openings", 0, 0))
    /\ IF proof.query_round_proofs > 0
         THEN q' = 1 /\ pc' = "query_start"
         ELSE q' = q /\ pc' = "done"
    /\ UNCHANGED <<inputs, abort, challenger, round, x_index_bits, cap_index, subgroup_x, old_eval>>

(***************************************************************************)
(* fri_verifier_query_round, lines 302-400.                                *)
(***************************************************************************)
\* fri_verify_initial_proof: the zip of evals_proofs with initial_merkle_caps.
InitialProofOps(qq, bits, capidx) ==
    [k \in 1..Min(proof.evals_proofs, initial_merkle_caps) |->
        MerkleOp(qq, <<"initial_leaf", k>>, bits, capidx,
                 <<"initial_cap", k>>, <<"initial_path", k>>)]

CapIndexBitsLow(n_log, cap_height) == Positions(0, cap_height)

\* x_index_bits[x_index_bits.len() - cap_height..], the arguments of le_sum.
CapIndexBits(n_log, cap_height) == Positions(n_log - cap_height, n_log)

\* The debug assertion of fri_combine_initial (usize arithmetic).
DegreeLogCoherent ==
    /\ params.cap_height + proof.siblings >= params.rate_bits
    /\ params.degree_bits = params.cap_height + proof.siblings - params.rate_bits

\* Lines 302-345: the index challenge, cap_index, the initial Merkle proofs,
\* the domain point and the combination of the initial oracles.
QueryStart ==
    /\ pc = "query_start"
    /\ LET n_log == NLog(params)
           bits == Positions(0, n_log)
           capidx == CapIndexBits(n_log, params.cap_height)
           x == [exp_bits |-> Reverse(bits), squarings |-> 0]
           authenticated == ctx \o InitialProofOps(q, bits, capidx)
                                \o <<GateOp("exp_from_bits", q, 0)>>
       IN  IF ~build.noncanonical_ok
             THEN /\ Halt("noncanonical")
                  /\ UNCHANGED <<challenger, ctx, round, x_index_bits, cap_index,
                                 subgroup_x, old_eval>>
             ELSE /\ challenger' = Append(challenger, TOp("challenge", "x_index", q))
                  /\ IF params.cap_height > n_log
                       THEN /\ Halt("cap_height")
                            /\ UNCHANGED <<ctx, round, x_index_bits, cap_index,
                                           subgroup_x, old_eval>>
                       ELSE /\ x_index_bits' = bits
                            /\ cap_index' = capidx
                            /\ subgroup_x' = x
                            /\ IF build.D = 1
                                 THEN /\ Halt("D1")
                                      /\ ctx' = authenticated
                                      /\ UNCHANGED <<round, old_eval>>
                                 ELSE IF build.debug_assertions /\ ~DegreeLogCoherent
                                   THEN /\ Halt("degree_log")
                                        /\ ctx' = authenticated
                                        /\ UNCHANGED <<round, old_eval>>
                                   ELSE /\ ctx' = Append(authenticated,
                                                         CombineInitialOp(q))
                                        /\ old_eval' = InitialCombination(q)
                                        /\ round' = 1
                                        /\ pc' = "reduction"
                                        /\ abort' = abort
    /\ UNCHANGED <<inputs, q>>

ReductionRoundSaturating ==
    /\ pc = "reduction"
    /\ round <= Len(params.reduction_arity_bits)
    /\ LET arity_bits == Min(params.reduction_arity_bits[round], Len(x_index_bits))
           coset_index_bits == SubSeq(x_index_bits, arity_bits + 1, Len(x_index_bits))
           x_index_within_coset_bits == SubSeq(x_index_bits, 1, arity_bits)
           consistency == RandomAccessOp(q, round, x_index_within_coset_bits, old_eval)
       IN  IF round > proof.steps
             THEN /\ Halt("steps")
                  /\ UNCHANGED <<ctx, round, x_index_bits, subgroup_x, old_eval>>
             ELSE IF arity_bits > Len(x_index_bits)
               THEN /\ Halt("arity_bits")
                    /\ UNCHANGED <<ctx, round, x_index_bits, subgroup_x, old_eval>>
               ELSE IF round > proof.commit_phase_merkle_caps
                 THEN /\ Halt("betas")
                      /\ ctx' = Append(ctx, consistency)
                      /\ UNCHANGED <<round, x_index_bits, subgroup_x, old_eval>>
                 ELSE /\ ctx' = ctx \o
                           <<consistency,
                             InterpolateOp(q, round, subgroup_x, x_index_within_coset_bits),
                             MerkleOp(q, <<"evals", round>>, coset_index_bits, cap_index,
                                      <<"commit_cap", round>>, <<"step_path", round>>)>>
                      /\ old_eval' = Interpolated(q, round)
                      /\ subgroup_x' = [subgroup_x EXCEPT !.squarings = @ + arity_bits]
                      /\ x_index_bits' = coset_index_bits
                      /\ round' = round + 1
                      /\ UNCHANGED <<pc, abort>>
    /\ UNCHANGED <<inputs, challenger, q, cap_index>>

\* One iteration of the loop over reduction_arity_bits, lines 347-387.
ReductionRound ==
    /\ pc = "reduction"
    /\ round <= Len(params.reduction_arity_bits)
    /\ LET arity_bits == params.reduction_arity_bits[round]
           coset_index_bits == SubSeq(x_index_bits, arity_bits + 1, Len(x_index_bits))
           x_index_within_coset_bits == SubSeq(x_index_bits, 1, arity_bits)
           consistency == RandomAccessOp(q, round, x_index_within_coset_bits, old_eval)
       IN  IF round > proof.steps
             THEN /\ Halt("steps")
                  /\ UNCHANGED <<ctx, round, x_index_bits, subgroup_x, old_eval>>
             ELSE IF arity_bits > Len(x_index_bits)
               THEN /\ Halt("arity_bits")
                    /\ UNCHANGED <<ctx, round, x_index_bits, subgroup_x, old_eval>>
               ELSE IF round > proof.commit_phase_merkle_caps
                 THEN /\ Halt("betas")
                      /\ ctx' = Append(ctx, consistency)
                      /\ UNCHANGED <<round, x_index_bits, subgroup_x, old_eval>>
                 ELSE /\ ctx' = ctx \o
                           <<consistency,
                             InterpolateOp(q, round, subgroup_x, x_index_within_coset_bits),
                             MerkleOp(q, <<"evals", round>>, coset_index_bits, cap_index,
                                      <<"commit_cap", round>>, <<"step_path", round>>)>>
                      /\ old_eval' = Interpolated(q, round)
                      /\ subgroup_x' = [subgroup_x EXCEPT !.squarings = @ + arity_bits]
                      /\ x_index_bits' = coset_index_bits
                      /\ round' = round + 1
                      /\ UNCHANGED <<pc, abort>>
    /\ UNCHANGED <<inputs, challenger, q, cap_index>>

\* Lines 389-399, and the step of the loop over query_round_proofs.
FinalCheck ==
    /\ pc = "reduction"
    /\ round > Len(params.reduction_arity_bits)
    /\ ctx' = Append(ctx, FinalOp(q, subgroup_x, old_eval))
    /\ IF q < proof.query_round_proofs
         THEN q' = q + 1 /\ pc' = "query_start"
         ELSE q' = q /\ pc' = "done"
    /\ UNCHANGED <<inputs, abort, challenger, round, x_index_bits, cap_index,
                   subgroup_x, old_eval>>

Next ==
    \/ CheckConfig
    \/ ObserveOpenings
    \/ DrawAlpha
    \/ ObserveCapDrawBeta
    \/ ObserveFinalPoly
    \/ VerifyProofOfWork
    \/ CheckQueryRounds
    \/ PrecomputeReducedOpenings
    \/ QueryStart
    \/ ReductionRound
    \/ FinalCheck

Spec == Init /\ [][Next]_vars

(***************************************************************************)
(* Quantities the properties below are stated with.                        *)
(***************************************************************************)
arities == params.reduction_arity_bits

NumRounds == Len(arities)

\* arity_bits[1] + ... + arity_bits[r-1]
Offset(r) == SumSeq(Prefix(arities, r - 1))

Done == pc = "done"

Completed == pc = "done" /\ abort = "none"

CtxIndices(kind) == {k \in 1..Len(ctx) : ctx[k].kind = kind}

\* The value a query's chain holds after r reduction rounds.
ChainValue(qq, r) == IF r = 0 THEN InitialCombination(qq) ELSE Interpolated(qq, r)

ExpectedTranscript ==
    <<TOp("observe", "openings", 0), TOp("challenge", "alpha", 0)>>
    \o [k \in 1..(2 * proof.commit_phase_merkle_caps) |->
          IF k % 2 = 1 THEN TOp("observe", "cap", (k + 1) \div 2)
                       ELSE TOp("challenge", "beta", k \div 2)]
    \o <<TOp("observe", "final_poly", proof.final_poly), TOp("get_hash", "pow", 0)>>
    \o [k \in 1..proof.query_round_proofs |-> TOp("challenge", "x_index", k)]

\* C1: the transcript operations performed so far are always an initial part
\* of: observe the openings, draw alpha, (observe cap i, draw beta i) for each
\* commit-phase cap in proof order, observe the final polynomial, read the
\* hash for the proof of work, then one index challenge per query round proof
\* with nothing observed in between; a run that completes performed them all.
C1_TranscriptOrder ==
    /\ IsPrefixOf(challenger, ExpectedTranscript)
    /\ Completed => challenger = ExpectedTranscript

C1_Witness ==
    /\ Completed
    /\ proof.commit_phase_merkle_caps = 2
    /\ proof.query_round_proofs = 2
    /\ Len(challenger) = 10

FinalPolyMismatch == params.final_poly_len # proof.final_poly

QueryCountMismatch == params.num_query_rounds # proof.query_round_proofs

\* C2 as stated: a wrong final polynomial length or a wrong number of query
\* round proofs aborts construction in every build, before the transcript or
\* the build context has been changed.
C2_AbortsInEveryBuildBeforeAnyChange ==
    Done /\ (FinalPolyMismatch \/ QueryCountMismatch)
        => abort # "none" /\ challenger = <<>> /\ ctx = <<>>

\* C2 amended: with debug assertions on, a wrong final polynomial length
\* aborts before the transcript or the build context has changed, and a wrong
\* number of query round proofs aborts too, but only after the openings, the
\* caps and the final polynomial were observed, alpha and the betas drawn and
\* the proof-of-work constraint emitted, and before any query round; with
\* debug assertions off neither check is made.
C2_DebugAssertionsOnly ==
    /\ Done /\ build.debug_assertions /\ FinalPolyMismatch
          => abort # "none" /\ challenger = <<>> /\ ctx = <<>>
    /\ Done /\ build.debug_assertions /\ QueryCountMismatch
          => /\ abort # "none"
             /\ \A k \in 1..Len(challenger) : challenger[k].what # "x_index"
             /\ \A k \in 1..Len(ctx) : ctx[k].kind = "assert_leading_zeros"
    /\ abort = "num_query_rounds"
          => /\ challenger = Prefix(ExpectedTranscript,
                                    4 + 2 * proof.commit_phase_merkle_caps)
             /\ ctx = <<GateOp("assert_leading_zeros", 0, 0)>>
    /\ ~build.debug_assertions => abort \notin {"final_poly_len", "num_query_rounds"}

C2_Witness ==
    /\ abort = "num_query_rounds"
    /\ QueryCountMismatch
    /\ Len(challenger) > 4

\* C3 as stated: parameters with sum(reduction_arity_bits) + cap_height
\* different from degree_bits + rate_bits never complete construction.
C3_IncoherentParamsAbort ==
    Done /\ SumSeq(arities) + params.cap_height # params.degree_bits + params.rate_bits
        => abort # "none"

\* C3 amended: when sum(reduction_arity_bits) exceeds degree_bits + rate_bits
\* and the proof has at least one query round proof, construction aborts; a
\* sum that does not exceed it is not checked against cap_height.
C3_ArityOverrunAborts ==
    Done /\ proof.query_round_proofs >= 1
         /\ SumSeq(arities) > params.degree_bits + params.rate_bits
        => abort # "none"

C3_Witness ==
    /\ abort = "arity_bits"
    /\ round = 2
    /\ SumSeq(arities) > params.degree_bits + params.rate_bits

StructuralFailures ==
    {"capacity", "final_poly_len", "num_query_rounds", "noncanonical", "cap_height",
     "D1", "degree_log", "steps", "arity_bits", "betas"}

\* Whether construction completes, from the build, the parameters and the
\* shape of the arguments alone.
ShapeCompletes ==
    /\ NumRounds > 0 => build.capacity_ok
    /\ build.debug_assertions => ~FinalPolyMismatch /\ ~QueryCountMismatch
    /\ proof.query_round_proofs > 0 =>
          /\ build.noncanonical_ok
          /\ params.cap_height <= NLog(params)
          /\ build.D > 1
          /\ build.debug_assertions => DegreeLogCoherent
          /\ NumRounds <= proof.steps
          /\ NumRounds <= proof.commit_phase_merkle_caps
          /\ SumSeq(arities) <= NLog(params)

\* C5: construction aborts only for structural reasons, and whether it aborts
\* is decided by the build, the parameters and the lengths of the arguments,
\* so two runs that differ only in the proof's values abort or complete
\* together; a completed run has emitted one proof-of-work constraint and, per
\* query round, one consistency constraint and one Merkle check per reduction
\* round, the initial Merkle checks and one final-polynomial constraint, and
\* has performed the whole transcript: the soundness checks are emitted
\* constraints, never aborts.
C5_SoundnessChecksNeverAbort ==
    /\ abort \in {"none"} \cup StructuralFailures
    /\ Done => (abort = "none" <=> ShapeCompletes)
    /\ Completed =>
          /\ challenger = ExpectedTranscript
          /\ Cardinality(CtxIndices("assert_leading_zeros")) = 1
          /\ Cardinality(CtxIndices("random_access")) = proof.query_round_proofs * NumRounds
          /\ Cardinality(CtxIndices("connect_final")) = proof.query_round_proofs
          /\ Cardinality(CtxIndices("merkle")) =
                proof.query_round_proofs
                  * (Min(proof.evals_proofs, initial_merkle_caps) + NumRounds)

C5_Witness ==
    /\ Completed
    /\ proof.query_round_proofs = 2
    /\ NumRounds = 2
    /\ Cardinality(CtxIndices("merkle")) = 8

\* C6: every consistency constraint of round r selects, with the low
\* arity_bits[r] working index bits, one of round r's coset evaluations and
\* requires it to equal the value the chain held after round r-1 (the initial
\* combination for the first round, else the interpolant of round r-1's
\* evaluations at beta r-1); the final constraint requires the final
\* polynomial at the point squared sum(arity_bits) times to equal the value
\* after the last round; a completed run has exactly one of each per query
\* round and reduction round.
C6_FoldingChain ==
    /\ \A k \in CtxIndices("random_access") :
          LET e == ctx[k] IN
          /\ e.round \in 1..NumRounds
          /\ e.index = Positions(Offset(e.round), Offset(e.round) + arities[e.round])
          /\ e.evals = <<"evals", e.round>>
          /\ e.claimed = ChainValue(e.q, e.round - 1)
    /\ \A k \in CtxIndices("interpolate") :
          LET e == ctx[k] IN
          /\ e.evals = <<"evals", e.round>>
          /\ e.beta = e.round
          /\ e.x.squarings = Offset(e.round)
    /\ \A k \in CtxIndices("connect_final") :
          LET e == ctx[k] IN
          /\ e.claimed = ChainValue(e.q, NumRounds)
          /\ e.x.squarings = SumSeq(arities)
    /\ Completed =>
          \A qq \in 1..proof.query_round_proofs :
             /\ \A r \in 1..NumRounds :
                   /\ Cardinality({k \in CtxIndices("random_access") :
                                     ctx[k].q = qq /\ ctx[k].round = r}) = 1
                   /\ Cardinality({k \in CtxIndices("interpolate") :
                                     ctx[k].q = qq /\ ctx[k].round = r}) = 1
             /\ Cardinality({k \in CtxIndices("connect_final") : ctx[k].q = qq}) = 1

C6_Witness ==
    /\ Completed
    /\ NumRounds = 2
    /\ \E k \in CtxIndices("random_access") :
          ctx[k].round = 2 /\ ctx[k].claimed = Interpolated(1, 1)
    /\ \E k \in CtxIndices("connect_final") : ctx[k].claimed = Interpolated(1, 2)

\* C7: in a completed run every query round holds exactly one Merkle check
\* for every oracle of the initial tree proof (oracle k against initial cap k
\* with all the index bits) and exactly one for every reduction round (round
\* r's evaluations against commit-phase cap r with round r's path), and every
\* leaf opening the initial combination reads has a Merkle check.
C7_EveryLeafAuthenticatedOnce ==
    Completed =>
       \A qq \in 1..proof.query_round_proofs :
          /\ \A k \in CtxIndices("combine_initial") :
                \A leaf \in ctx[k].leaves :
                   \E m \in CtxIndices("merkle") :
                      ctx[m].q = ctx[k].q /\ ctx[m].leaf = leaf
          /\ \A o \in 1..proof.evals_proofs :
                Cardinality({k \in CtxIndices("merkle") :
                    /\ ctx[k].q = qq
                    /\ ctx[k].leaf = <<"initial_leaf", o>>
                    /\ ctx[k].cap = <<"initial_cap", o>>
                    /\ ctx[k].path = <<"initial_path", o>>
                    /\ ctx[k].bits = Positions(0, NLog(params))}) = 1
          /\ \A r \in 1..NumRounds :
                Cardinality({k \in CtxIndices("merkle") :
                    /\ ctx[k].q = qq
                    /\ ctx[k].leaf = <<"evals", r>>
                    /\ ctx[k].cap = <<"commit_cap", r>>
                    /\ ctx[k].path = <<"step_path", r>>
                    /\ ctx[k].bits = Positions(Offset(r + 1), NLog(params))}) = 1

\* C10: every Merkle check of a query round uses the cap_index made of the top
\* cap_height bits of the n_log index bits; the working bits at the start of
\* round r are the original bits from position arity_bits[1] + ... +
\* arity_bits[r-1] upward; when the bits left after round r are at least
\* cap_height many, their top cap_height bits are the bits of cap_index; and
\* no round reads a bit position that does not exist.
C10_IndexBitBookkeeping ==
    /\ \A k \in CtxIndices("merkle") :
          /\ ctx[k].cap_index = Positions(NLog(params) - params.cap_height, NLog(params))
          /\ \A j \in 1..Len(ctx[k].bits) : ctx[k].bits[j] \in 0..(NLog(params) - 1)
    /\ pc = "reduction" =>
          /\ Offset(round) <= NLog(params)
          /\ x_index_bits = Positions(Offset(round), NLog(params))
          /\ cap_index = Positions(NLog(params) - params.cap_height, NLog(params))
    /\ \A k \in CtxIndices("merkle") :
          LET e == ctx[k] IN
          e.leaf[1] = "evals" =>
             LET r == e.leaf[2] IN
             /\ Offset(r + 1) <= NLog(params)
             /\ e.bits = Positions(Offset(r + 1), NLog(params))
             /\ Offset(r + 1) <= NLog(params) - params.cap_height =>
                   SubSeq(e.bits, Len(e.bits) - params.cap_height + 1, Len(e.bits))
                      = e.cap_index
    /\ \A k \in CtxIndices("random_access") :
          \A j \in 1..Len(ctx[k].index) : ctx[k].index[j] \in 0..(NLog(params) - 1)
    /\ Done /\ proof.query_round_proofs >= 1 /\ SumSeq(arities) > NLog(params)
          => abort # "none" /\ CtxIndices("connect_final") = {}

C10_Witness ==
    /\ Completed
    /\ params.cap_height = 1
    /\ NumRounds = 2
    /\ SumSeq(arities) <= NLog(params) - params.cap_height
    /\ \E k \in CtxIndices("merkle") : ctx[k].leaf = <<"evals", 2>>

(***************************************************************************)
(* Field values.  The specifications below run single functions of the     *)
(* verifier over concrete values, taking the circuit's gates by the values *)
(* they compute.  The base field is a small prime field with the shape of  *)
(* the 64-bit field: two-adic (Order - 1 = 2^5 * 3), with a generator of   *)
(* its multiplicative group as coset shift.                                *)
(***************************************************************************)
Order == 97
CosetShift == 5
WordBits == 64
MaxPowBits == 8
MaxNLog == 3
MaxBatches == 2
MaxBatchSize == 2

FAdd(a, b) == (a + b) % Order
FSub(a, b) == (a + Order - b) % Order
FMul(a, b) == (a * b) % Order

RECURSIVE FExp(_, _)
FExp(a, e) ==
    IF e = 0 THEN 1
    ELSE IF e % 2 = 0 THEN FExp(FMul(a, a), e \div 2)
    ELSE FMul(a, FExp(a, e - 1))

FInv(a) == FExp(a, Order - 2)

\* The quadratic extension: pairs <<a, b>> standing for a + b*X, X^2 = ExtW, a
\* non-residue of the base field.
ExtW == CosetShift

Ext(a) == <<a, 0>>

EZero == <<0, 0>>

EAdd(u, v) == <<FAdd(u[1], v[1]), FAdd(u[2], v[2])>>
ESub(u, v) == <<FSub(u[1], v[1]), FSub(u[2], v[2])>>
EMul(u, v) ==
    <<FAdd(FMul(u[1], v[1]), FMul(ExtW, FMul(u[2], v[2]))),
      FAdd(FMul(u[1], v[2]), FMul(u[2], v[1]))>>

EInv(u) ==
    LET norm == FSub(FMul(u[1], u[1]), FMul(ExtW, FMul(u[2], u[2])))
    IN  <<FMul(u[1], FInv(norm)), FMul(FSub(0, u[2]), FInv(norm))>>

EDiv(u, v) == EMul(u, EInv(v))

RECURSIVE EExp(_, _)
EExp(u, e) ==
    IF e = 0 THEN Ext(1)
    ELSE IF e % 2 = 0 THEN EExp(EMul(u, u), e \div 2)
    ELSE EMul(u, EExp(u, e - 1))

RECURSIVE ESum(_)
ESum(s) == IF s = <<>> THEN EZero ELSE EAdd(Head(s), ESum(Tail(s)))

RECURSIVE BitLength(_)
BitLength(n) == IF n = 0 THEN 0 ELSE 1 + BitLength(n \div 2)

\* The state of Spec in the specifications that do not run verify_fri_proof.
MainUnused ==
    /\ build = Unused /\ params = Unused /\ proof = Unused
    /\ initial_merkle_caps = 0 /\ pc = "unused" /\ abort = "none"
    /\ challenger = <<>> /\ ctx = <<>> /\ q = 0 /\ round = 0
    /\ x_index_bits = <<>> /\ cap_index = <<>>
    /\ subgroup_x = Unused /\ old_eval = Unused

(***************************************************************************)
(* fri_verify_proof_of_work over values, lines 106-120.                    *)
(***************************************************************************)
\* hash_n_to_m(inputs, 1, false)[0]: a sponge absorbing one element at a time
\* through a permutation of the field.
RECURSIVE Absorb(_, _)
Absorb(state, elements) ==
    IF elements = <<>> THEN state
    ELSE Absorb(FAdd(FMul(3, FAdd(state, Head(elements))), 1), Tail(elements))

HashNToOne(elements) == Absorb(0, elements)

\* The number of leading zero bits of a field element held in a 64-bit word.
LeadingZeros(h) == WordBits - BitLength(h)

\* assert_leading_zeros(x, k): satisfiable exactly by a value with at least k
\* leading zero bits.
LeadingZerosSatisfied(h, k) == LeadingZeros(h) >= k

PowInputsWithoutWitness(digest, pow_witness) == digest

\* Lines 112-113: the transcript's digest elements, then the witness.
PowInputs(digest, pow_witness) == Append(digest, pow_witness)

PowThresholdNoMargin(proof_of_work_bits) == proof_of_work_bits

\* Line 118: proof_of_work_bits + (64 - F::order().bits()).
PowThreshold(proof_of_work_bits) == proof_of_work_bits + (WordBits - BitLength(Order))

DigestElements == {0, 1, 50}

InitPow ==
    /\ \E bits \in 0..MaxPowBits, digest \in [1..2 -> DigestElements],
          w \in 0..(Order - 1) :
          pow = [pc |-> "start", proof_of_work_bits |-> bits, digest |-> digest,
                 pow_witness |-> w, hash |-> 0, threshold |-> 0, accepted |-> FALSE]
    /\ pt = Unused
    /\ comb = Unused
    /\ MainUnused

\* Lines 112-115.
PowHash ==
    /\ pow.pc = "start"
    /\ pow' = [pow EXCEPT !.pc = "hashed",
                          !.hash = HashNToOne(PowInputs(pow.digest, pow.pow_witness))]
    /\ UNCHANGED <<mainVars, pt, comb>>

\* Lines 116-119.
PowAssertLeadingZeros ==
    /\ pow.pc = "hashed"
    /\ LET k == PowThreshold(pow.proof_of_work_bits)
       IN  pow' = [pow EXCEPT !.pc = "done", !.threshold = k,
                              !.accepted = LeadingZerosSatisfied(pow.hash, k)]
    /\ UNCHANGED <<mainVars, pt, comb>>

NextPow == PowHash \/ PowAssertLeadingZeros

SpecPow == InitPow /\ [][NextPow]_vars

\* Whether the witness of the run would be accepted with b proof-of-work bits.
AcceptedWith(b) ==
    LeadingZeros(HashNToOne(pow.digest \o <<pow.pow_witness>>))
        >= b + (WordBits - BitLength(Order))

\* C4: the proof-of-work constraint is satisfiable exactly when the hash of the
\* transcript's digest elements followed by the witness has at least
\* proof_of_work_bits + (64 - bit length of the field order) leading zero bits;
\* an accepted witness is accepted for every smaller proof_of_work_bits and is
\* rejected by some larger one.
C4_ProofOfWorkMonotonic ==
    pow.pc = "done" =>
       /\ pow.accepted <=> AcceptedWith(pow.proof_of_work_bits)
       /\ pow.accepted =>
             /\ \A b \in 0..pow.proof_of_work_bits : AcceptedWith(b)
             /\ \E b \in (pow.proof_of_work_bits + 1)..(WordBits + 1) :
                   /\ ~AcceptedWith(b)
                   /\ \A c \in b..(WordBits + 1) : ~AcceptedWith(c)

C4_Witness ==
    /\ pow.pc = "done"
    /\ pow.accepted
    /\ pow.proof_of_work_bits = 3
    /\ pow.hash # 0
    /\ ~AcceptedWith(4)

(***************************************************************************)
(* The domain point of a query round over values, lines 323-330, 347-387.  *)
(***************************************************************************)
\* F::primitive_root_of_unity(n_log): an element of order 2^n_log.
PrimitiveRootOfUnity(n_log) == FExp(CosetShift, (Order - 1) \div (2 ^ n_log))

\* exp_from_bits_const_base(base, bits): the product of base^(2^i) over the
\* positions i, counted from 0 in the order given, whose bit is set.
RECURSIVE ExpFromBitsConstBase(_, _)
ExpFromBitsConstBase(base, bits) ==
    IF bits = <<>> THEN 1
    ELSE FMul(IF Head(bits) = 1 THEN base ELSE 1,
              ExpFromBitsConstBase(FMul(base, base), Tail(bits)))

\* exp_power_of_2(x, k): k squarings.
RECURSIVE ExpPowerOf2(_, _)
ExpPowerOf2(x, k) == IF k = 0 THEN x ELSE ExpPowerOf2(FMul(x, x), k - 1)

\* le_sum: the integer whose binary digits are bits, lowest first.
RECURSIVE LeSum(_)
LeSum(bits) == IF bits = <<>> THEN 0 ELSE Head(bits) + 2 * LeSum(Tail(bits))

ComputeSubgroupXUnreversed(n_log, bits) ==
    FMul(CosetShift, ExpFromBitsConstBase(PrimitiveRootOfUnity(n_log), bits))

\* Lines 324-330: g * phi, phi from the index bits iterated in reverse.
ComputeSubgroupX(n_log, bits) ==
    FMul(CosetShift, ExpFromBitsConstBase(PrimitiveRootOfUnity(n_log), Reverse(bits)))

InitPoint ==
    /\ \E n_log \in 1..MaxNLog, ar \in ArityLists :
          \E bits \in [1..n_log -> {0, 1}] :
             pt = [pc |-> "start", n_log |-> n_log, index_bits |-> bits,
                   reduction_arity_bits |-> ar, x_index_bits |-> bits, round |-> 0,
                   x0 |-> 0, subgroup_x |-> 0, abort |-> "none"]
    /\ pow = Unused
    /\ comb = Unused
    /\ MainUnused

\* Lines 307-330.
PointComputeX ==
    /\ pt.pc = "start"
    /\ LET x == ComputeSubgroupX(pt.n_log, pt.x_index_bits)
       IN  pt' = [pt EXCEPT !.pc = "reduction", !.x0 = x, !.subgroup_x = x, !.round = 1]
    /\ UNCHANGED <<mainVars, pow, comb>>

\* Lines 347-387, as far as the point and the index bits go.
PointReductionRound ==
    /\ pt.pc = "reduction"
    /\ pt.round <= Len(pt.reduction_arity_bits)
    /\ LET arity_bits == pt.reduction_arity_bits[pt.round]
       IN  IF arity_bits > Len(pt.x_index_bits)
             THEN pt' = [pt EXCEPT !.pc = "done", !.abort = "arity_bits"]
             ELSE pt' = [pt EXCEPT
                          !.subgroup_x = ExpPowerOf2(pt.subgroup_x, arity_bits),
                          !.x_index_bits = SubSeq(pt.x_index_bits, arity_bits + 1,
                                                  Len(pt.x_index_bits)),
                          !.round = pt.round + 1]
    /\ UNCHANGED <<mainVars, pow, comb>>

\* Line 397: the point the final polynomial is evaluated at.
PointFinal ==
    /\ pt.pc = "reduction"
    /\ pt.round > Len(pt.reduction_arity_bits)
    /\ pt' = [pt EXCEPT !.pc = "done"]
    /\ UNCHANGED <<mainVars, pow, comb>>

NextPoint == PointComputeX \/ PointReductionRound \/ PointFinal

SpecPoint == InitPoint /\ [][NextPoint]_vars

\* The index read low-to-high, and read with its n_log bits in reverse order.
PointIndex == LeSum(pt.index_bits)

PointReversedIndex == LeSum(Reverse(pt.index_bits))

PointRoot == PrimitiveRootOfUnity(pt.n_log)

PointStarted == pt.pc \in {"reduction", "done"}

\* C8 as stated: the domain point is coset_shift * primitive_root^index with
\* index the integer of the index bits read low-to-high.
C8_PointIsRootToTheIndex ==
    PointStarted => pt.x0 = FMul(CosetShift, FExp(PointRoot, PointIndex))

\* C8 amended: the domain point is coset_shift * primitive_root^r where r is
\* the integer of the n_log index bits taken in reverse order (the bit
\* reversal of the index); every reduction round raises the point to the power
\* 2^arity_bits, so the final polynomial is evaluated at
\* (coset_shift * primitive_root^r)^(2^sum(reduction_arity_bits)).
C8_PointIsRootToTheReversedIndex ==
    PointStarted =>
       /\ pt.x0 = FMul(CosetShift, FExp(PointRoot, PointReversedIndex))
       /\ pt.abort = "none" =>
             pt.subgroup_x
               = FExp(pt.x0, 2 ^ SumSeq(Prefix(pt.reduction_arity_bits, pt.round - 1)))
       /\ pt.pc = "done" /\ pt.abort = "none" =>
             pt.subgroup_x
               = FExp(FMul(CosetShift, FExp(PointRoot, PointReversedIndex)),
                      2 ^ SumSeq(pt.reduction_arity_bits))

C8_Witness ==
    /\ pt.pc = "done"
    /\ pt.abort = "none"
    /\ pt.index_bits = <<1, 0, 0>>
    /\ pt.reduction_arity_bits = <<1, 1>>
    /\ pt.x0 # FMul(CosetShift, FExp(PointRoot, PointIndex))
    /\ pt.subgroup_x # pt.x0

(***************************************************************************)
(* fri_combine_initial over values, lines 243-285, with the precomputed    *)
(* reduced openings, lines 430-444.                                        *)
(***************************************************************************)
\* ReducingFactorTarget::new(alpha)
NewReducingFactor(alpha) == [base |-> alpha, count |-> 0]

\* ReducingFactorTarget::reduce: the terms weighted by ascending powers of the
\* base, by Horner's rule from the last term; the count grows by their number.
RECURSIVE Horner(_, _)
Horner(base, terms) ==
    IF terms = <<>> THEN EZero
    ELSE EAdd(Head(terms), EMul(base, Horner(base, Tail(terms))))

Reduce(factor, terms) ==
    [factor |-> [factor EXCEPT !.count = @ + Len(terms)],
     value |-> Horner(factor.base, terms)]

\* ReducingFactorTarget::reduce_base: the same over base field terms.
ReduceBase(factor, terms) == Reduce(factor, [k \in 1..Len(terms) |-> Ext(terms[k])])

\* ReducingFactorTarget::shift: x * base^count, and the count starts over.
Shift(factor, x) ==
    [factor |-> [factor EXCEPT !.count = 0],
     value |-> EMul(EExp(factor.base, factor.count), x)]

\* FriInitialTreeProofTarget::unsalted_eval: the leaf opening of a polynomial.
UnsaltedEval(leaves, poly) == leaves[poly[1]][poly[2]]

\* Lines 269-276: the leaf openings of a batch's polynomials, in order.
BatchEvals(leaves, batch) ==
    [k \in 1..Len(batch.polynomials) |-> UnsaltedEval(leaves, batch.polynomials[k])]

CombineBatchShiftFirst(factor, sum, x, leaves, batch, reduced_openings) ==
    LET shifted == Shift(factor, sum)
        reduced == ReduceBase(shifted.factor, BatchEvals(leaves, batch))
        numerator == ESub(reduced.value, reduced_openings)
        denominator == ESub(Ext(x), batch.point)
    IN  [factor |-> reduced.factor,
         sum |-> EAdd(EDiv(numerator, denominator), shifted.value)]

\* Lines 268-281: one iteration of the loop over the batches.
CombineBatch(factor, sum, x, leaves, batch, reduced_openings) ==
    LET reduced == ReduceBase(factor, BatchEvals(leaves, batch))
        numerator == ESub(reduced.value, reduced_openings)
        denominator == ESub(Ext(x), batch.point)
        shifted == Shift(reduced.factor, sum)
    IN  [factor |-> shifted.factor,
         sum |-> EAdd(EDiv(numerator, denominator), shifted.value)]

\* from_os_and_alpha, lines 436-440: a fresh reducing factor per batch.
FromOsAndAlpha(openings, alpha) ==
    [j \in 1..Len(openings) |-> Reduce(NewReducingFactor(alpha), openings[j]).value]

\* The sample proof and openings: two oracles of two polynomials each; the
\* opening claimed for a polynomial in batch j; the point of batch j, outside
\* the base field.
SampleLeaves == <<<<3, 10>>, <<29, 71>>>>

SampleOpening(j, poly) == <<(11 * poly[1] + 5 * poly[2] + j) % Order, poly[1] + j>>

SamplePoint(j) == <<7 * j, j>>

PolynomialLists ==
    UNION {[1..n -> {<<1, 2>>, <<2, 1>>}] : n \in 1..MaxBatchSize}

InitCombine ==
    /\ \E d \in {1, 2}, alpha \in {<<2, 0>>, <<90, 3>>}, x \in {5, 44},
          n \in 1..MaxBatches :
          \E polys \in [1..n -> PolynomialLists] :
             comb = [pc |-> "precompute", D |-> d, alpha |-> alpha, subgroup_x |-> x,
                     leaves |-> SampleLeaves,
                     batches |-> [j \in 1..n |->
                                    [point |-> SamplePoint(j), polynomials |-> polys[j]]],
                     openings |-> [j \in 1..n |->
                                    [k \in 1..Len(polys[j]) |->
                                       SampleOpening(j, polys[j][k])]],
                     reduced_openings_at_point |-> <<>>,
                     j |-> 0, factor |-> NewReducingFactor(EZero), sum |-> EZero,
                     abort |-> "none"]
    /\ pow = Unused
    /\ pt = Unused
    /\ MainUnused

\* verify_fri_proof, lines 179-183.
CombinePrecompute ==
    /\ comb.pc = "precompute"
    /\ comb' = [comb EXCEPT !.pc = "start",
                  !.reduced_openings_at_point = FromOsAndAlpha(comb.openings, comb.alpha)]
    /\ UNCHANGED <<mainVars, pow, pt>>

\* Lines 252-261.
CombineStart ==
    /\ comb.pc = "start"
    /\ IF comb.D > 1
         THEN comb' = [comb EXCEPT !.pc = "batches", !.j = 1, !.sum = EZero,
                                   !.factor = NewReducingFactor(comb.alpha)]
         ELSE comb' = [comb EXCEPT !.pc = "done", !.abort = "D1"]
    /\ UNCHANGED <<mainVars, pow, pt>>

\* Lines 263-282, one batch.
CombineNextBatch ==
    /\ comb.pc = "batches"
    /\ comb.j <= Len(comb.batches)
    /\ LET r == CombineBatch(comb.factor, comb.sum, comb.subgroup_x, comb.leaves,
                             comb.batches[comb.j],
                             comb.reduced_openings_at_point[comb.j])
       IN  comb' = [comb EXCEPT !.factor = r.factor, !.sum = r.sum, !.j = comb.j + 1]
    /\ UNCHANGED <<mainVars, pow, pt>>

\* Line 284.
CombineReturn ==
    /\ comb.pc = "batches"
    /\ comb.j > Len(comb.batches)
    /\ comb' = [comb EXCEPT !.pc = "done"]
    /\ UNCHANGED <<mainVars, pow, pt>>

NextCombine == CombinePrecompute \/ CombineStart \/ CombineNextBatch \/ CombineReturn

SpecCombine == InitCombine /\ [][NextCombine]_vars

\* v[1] + alpha*v[2] + ... + alpha^(n-1)*v[n], with explicit powers.
ReduceAlpha(alpha, v) == ESum([k \in 1..Len(v) |-> EMul(EExp(alpha, k - 1), v[k])])

\* |B_(i+1)| + ... + |B_n|
LaterPolynomials(i, n) ==
    SumSeq([m \in 1..(n - i) |-> Len(comb.batches[i + m].polynomials)])

\* (reduce_alpha(leaf evals of batch i) - reduced openings of batch i) / (x - point_i)
BatchQuotient(i) ==
    LET evals == BatchEvals(comb.leaves, comb.batches[i])
    IN  EDiv(ESub(ReduceAlpha(comb.alpha, [k \in 1..Len(evals) |-> Ext(evals[k])]),
                  ReduceAlpha(comb.alpha, comb.openings[i])),
             ESub(Ext(comb.subgroup_x), comb.batches[i].point))

\* The claimed value of the sum after the first n batches.
CombinedUpTo(n) ==
    ESum([i \in 1..n |-> EMul(EExp(comb.alpha, LaterPolynomials(i, n)), BatchQuotient(i))])

\* C9: the call aborts exactly when D = 1; otherwise, with one reducing factor
\* over alpha carried through the batches in declaration order, after n
\* batches the sum is the sum over i <= n of
\* alpha^(|B_(i+1)| + ... + |B_n|) * (reduce_alpha(evals_i) - opening_i) / (x - point_i),
\* each step being sum * alpha^|B_n| + the quotient of batch n, where
\* reduce_alpha weights by ascending powers of alpha and opening_i is the same
\* reduction of the claimed openings, computed once before the call.
C9_CombineInitialClosedForm ==
    /\ comb.pc \in {"batches", "done"} => (comb.abort = "D1" <=> comb.D = 1)
    /\ comb.pc = "batches" =>
          /\ comb.factor = NewReducingFactor(comb.alpha)
          /\ comb.sum = CombinedUpTo(comb.j - 1)
          /\ comb.j > 1 =>
                comb.sum
                  = EAdd(EMul(EExp(comb.alpha, Len(comb.batches[comb.j - 1].polynomials)),
                              CombinedUpTo(comb.j - 2)),
                         BatchQuotient(comb.j - 1))
    /\ comb.pc \in {"start", "batches", "done"} =>
          \A i \in 1..Len(comb.batches) :
             comb.reduced_openings_at_point[i] = ReduceAlpha(comb.alpha, comb.openings[i])
    /\ comb.pc = "done" /\ comb.abort = "none" =>
          comb.sum = CombinedUpTo(Len(comb.batches))

C9_Witness ==
    /\ comb.pc = "done"
    /\ comb.abort = "none"
    /\ Len(comb.batches) = 2
    /\ Len(comb.batches[1].polynomials) = 2
    /\ Len(comb.batches[2].polynomials) = 2
    /\ comb.alpha = <<90, 3>>
    /\ comb.sum # EAdd(BatchQuotient(1), BatchQuotient(2))

====
